---- MODULE Spec2Model ----
(***************************************************************************)
(* FFmpegWrapper (python/ffmpegwrapper.py): command building, the          *)
(* synchronous executors, the progress executor with its monitor thread,   *)
(* and the ffprobe response parser.                                        *)
(*                                                                         *)
(* Representation of Python values:                                        *)
(*   - an argv element / path is a sequence of its os.sep separated        *)
(*     components: "-i" is <<"-i">>, "out/p.mp4" is <<"out", "p.mp4">>,     *)
(*     the empty string is <<>>;                                           *)
(*   - a text line (stderr line, r_frame_rate) is a sequence of            *)
(*     characters;                                                         *)
(*   - an optional value is None (<<>>) or Some(v) (<<v>>);                 *)
(*   - a float with two decimals is its number of hundredths.              *)
(***************************************************************************)
EXTENDS Integers, Sequences, FiniteSets, TLC

(***************************************************************************)
(* Bounds of the model.                                                    *)
(***************************************************************************)
\* capacity of an OS pipe, in lines
PipeCap == 1
\* largest number of streams in a probe document
MaxStreams == 2
\* numerators and denominators of r_frame_rate range over -Max..Max
MaxNum == 30
MaxDen == 12

\* the child writes at most this many lines: one more than a pipe holds
MaxLines == PipeCap + 1

(***************************************************************************)
(* Python values.                                                          *)
(***************************************************************************)
None == <<>>
Some(v) == <<v>>
IsNone(o) == o = <<>>
Val(o) == o[1]

\* a plain string without separators, as an argv element
S(str) == <<str>>

\* dict.get(key, default) on a dict modelled as a function
DictGet(d, key, default) == IF key \in DOMAIN d THEN d[key] ELSE default

Abs(i) == IF i < 0 THEN -i ELSE i

(***************************************************************************)
(* Text: str(int), int(str), str.split, str.strip, the "in" operator.      *)
(***************************************************************************)
Digits == <<"0", "1", "2", "3", "4", "5", "6", "7", "8", "9">>

DigitChar(i) == Digits[i + 1]

IsDigit(c) == \E i \in 1..10 : Digits[i] = c

DigitVal(c) == (CHOOSE i \in 1..10 : Digits[i] = c) - 1

RECURSIVE NatToChars(_)
NatToChars(n) ==
    IF n < 10 THEN <<DigitChar(n)>>
    ELSE NatToChars(n \div 10) \o <<DigitChar(n % 10)>>

\* str(i) for an int, as characters
IntToChars(i) == IF i < 0 THEN <<"-">> \o NatToChars(-i) ELSE NatToChars(i)

RECURSIVE Join(_)
Join(chars) == IF chars = <<>> THEN "" ELSE Head(chars) \o Join(Tail(chars))

\* str(i) for an int, as one argv string
IntToStr(i) == Join(IntToChars(i))

RECURSIVE DigitsToNat(_, _)
DigitsToNat(chars, acc) ==
    IF chars = <<>> THEN acc
    ELSE DigitsToNat(Tail(chars), acc * 10 + DigitVal(Head(chars)))

AllDigits(chars) == chars # <<>> /\ \A i \in 1..Len(chars) : IsDigit(chars[i])

\* whether int(chars) / float(chars) accepts an integer literal
IsIntLiteral(chars) ==
    \/ AllDigits(chars)
    \/ chars # <<>> /\ Head(chars) \in {"-", "+"} /\ AllDigits(Tail(chars))

\* int(chars) of an accepted literal
ParseInt(chars) ==
    IF Head(chars) = "-" THEN -DigitsToNat(Tail(chars), 0)
    ELSE IF Head(chars) = "+" THEN DigitsToNat(Tail(chars), 0)
    ELSE DigitsToNat(chars, 0)

\* needle in hay
Contains(hay, needle) ==
    \E i \in 1..(Len(hay) - Len(needle) + 1) :
        SubSeq(hay, i, i + Len(needle) - 1) = needle

\* chars.split(sep) for a one-character separator
RECURSIVE Split(_, _, _)
Split(chars, sep, cur) ==
    IF chars = <<>> THEN <<cur>>
    ELSE IF Head(chars) = sep THEN <<cur>> \o Split(Tail(chars), sep, <<>>)
    ELSE Split(Tail(chars), sep, Append(cur, Head(chars)))

Whitespace == {" ", "\n", "\t", "\r"}

RECURSIVE LStrip(_)
LStrip(chars) ==
    IF chars # <<>> /\ Head(chars) \in Whitespace THEN LStrip(Tail(chars))
    ELSE chars

RECURSIVE RStrip(_)
RStrip(chars) ==
    IF chars # <<>> /\ chars[Len(chars)] \in Whitespace
    THEN RStrip(SubSeq(chars, 1, Len(chars) - 1))
    ELSE chars

\* chars.strip()
Strip(chars) == RStrip(LStrip(chars))

(***************************************************************************)
(* get_video_info: the response parser (lines 236-271).                    *)
(***************************************************************************)
\* float(s) of "digits" or "digits.digits" (at most 3 decimals), in thousandths
IsFloatLiteral(chars) ==
    \/ IsIntLiteral(chars)
    \/ LET parts == Split(chars, ".", <<>>)
       IN  Len(parts) = 2 /\ AllDigits(parts[1]) /\ AllDigits(parts[2])
           /\ Len(parts[2]) <= 3

RECURSIVE Pow10(_)
Pow10(k) == IF k = 0 THEN 1 ELSE 10 * Pow10(k - 1)

ParseFloatMilli(chars) ==
    IF IsIntLiteral(chars) THEN ParseInt(chars) * 1000
    ELSE LET parts == Split(chars, ".", <<>>)
         IN  DigitsToNat(parts[1], 0) * 1000
             + DigitsToNat(parts[2], 0) * Pow10(3 - Len(parts[2]))

\* round(float(n) / float(d), 2) for d # 0, in hundredths.  The quotient of
\* two small integers is a tie at the third decimal only when its reduced
\* denominator is 8, 40 or 200; with |d| < 40 (or d = 1001) only 8 occurs,
\* such a quotient is exact in binary, and round() then rounds half to even.
RoundTruncated(n, d) ==
    LET q == (Abs(n) * 100) \div Abs(d)
    IN  IF (n < 0) # (d < 0) THEN -q ELSE q

RoundHundredths(n, d) ==
    LET a == Abs(n) * 100
        b == Abs(d)
        q == a \div b
        r == a % b
        m == IF 2 * r > b THEN q + 1
             ELSE IF 2 * r < b THEN q
             ELSE IF q % 2 = 0 THEN q ELSE q + 1
    IN  IF (n < 0) # (d < 0) THEN -m ELSE m

\* the info dictionary of line 236
InfoInit ==
    [duration |-> 0, width |-> None, height |-> None, fps |-> None,
     video_codec |-> None, audio_codec |-> None, bitrate |-> 0, file_size |-> 0]

\* stream.get(key): None when the key is absent
StreamGet(stream, key) ==
    IF key \in DOMAIN stream THEN Some(stream[key]) ELSE None

IsType(stream, type) ==
    "codec_type" \in DOMAIN stream /\ stream["codec_type"] = type

\* lines 262-266: the fps of one video stream; exc names the exception raised
StreamFps(stream, fps) ==
    LET fps_str == DictGet(stream, "r_frame_rate", <<"0", "/", "1">>)
        parts   == Split(fps_str, "/", <<>>)
    IN  IF ~Contains(fps_str, <<"/">>) THEN [exc |-> "", fps |-> fps]
        ELSE IF Len(parts) # 2 THEN [exc |-> "ValueError", fps |-> fps]
        ELSE IF ~IsIntLiteral(parts[2]) THEN [exc |-> "ValueError", fps |-> fps]
        ELSE IF ParseInt(parts[2]) = 0 THEN [exc |-> "", fps |-> fps]
        ELSE IF ~IsIntLiteral(parts[1]) THEN [exc |-> "ValueError", fps |-> fps]
        ELSE [exc |-> "",
              fps |-> Some(RoundHundredths(ParseInt(parts[1]), ParseInt(parts[2])))]

\* lines 256-269: the body of the stream loop
ProcessStream(info, stream) ==
    IF IsType(stream, "video")
    THEN LET f == StreamFps(stream, info.fps)
         IN  [exc  |-> f.exc,
              info |-> [info EXCEPT !.width = StreamGet(stream, "width"),
                                    !.height = StreamGet(stream, "height"),
                                    !.video_codec = StreamGet(stream, "codec_name"),
                                    !.fps = f.fps]]
    ELSE IF IsType(stream, "audio")
    THEN [exc |-> "",
          info |-> [info EXCEPT !.audio_codec = StreamGet(stream, "codec_name")]]
    ELSE [exc |-> "", info |-> info]

\* lines 255-269: the loop over data.get('streams', [])
RECURSIVE ScanStreams(_, _)
ScanStreams(streams, info) ==
    IF streams = <<>> THEN [exc |-> "", info |-> info]
    ELSE LET step == ProcessStream(info, Head(streams))
         IN  IF step.exc # "" THEN step
             ELSE ScanStreams(Tail(streams), step.info)

\* lines 248-252: the container-level fields
FormatInfo(data, info) ==
    IF IsNone(data.format) THEN [exc |-> "", info |-> info]
    ELSE LET f   == Val(data.format)
             dur == DictGet(f, "duration", <<"0">>)
             br  == DictGet(f, "bit_rate", <<"0">>)
             sz  == DictGet(f, "size", <<"0">>)
         IN  IF ~IsFloatLiteral(dur) \/ ~IsIntLiteral(br) \/ ~IsIntLiteral(sz)
             THEN [exc |-> "ValueError", info |-> info]
             ELSE [exc |-> "",
                   info |-> [info EXCEPT !.duration = ParseFloatMilli(dur),
                                         !.bitrate = ParseInt(br),
                                         !.file_size = ParseInt(sz)]]

\* lines 236-271: from the parsed document to the info dictionary
ParseVideoInfo(data) ==
    LET f == FormatInfo(data, InfoInit)
    IN  IF f.exc # "" THEN f
        ELSE ScanStreams(IF IsNone(data.streams) THEN <<>> ELSE Val(data.streams),
                         f.info)

(***************************************************************************)
(* Construction (lines 14-65).                                             *)
(***************************************************************************)
\* self._max_threads
max_threads == 4

\* os.path.dirname(os.path.abspath(__file__)): where the module is installed
current_dir == <<"fw", "python">>

\* os.path.normpath: "x/.." collapses
RECURSIVE NormPath(_, _)
NormPath(parts, done) ==
    IF parts = <<>> THEN done
    ELSE IF Head(parts) = ".." /\ done # <<>> /\ done[Len(done)] # ".."
    THEN NormPath(Tail(parts), SubSeq(done, 1, Len(done) - 1))
    ELSE NormPath(Tail(parts), Append(done, Head(parts)))

_get_bundled_ffmpeg_path ==
    NormPath(current_dir \o <<"..", "resources", "ffmpeg", "win", "ffmpeg.exe">>, <<>>)

_get_bundled_ffprobe_path ==
    NormPath(current_dir \o <<"..", "resources", "ffmpeg", "win", "ffprobe.exe">>, <<>>)

(***************************************************************************)
(* The file system as the wrapper sees it.                                 *)
(***************************************************************************)
PathExistsAlways(path, fs_files, fs_dirs) == TRUE

\* os.path.exists
PathExists(path, fs_files, fs_dirs) == path \in fs_files \/ path \in fs_dirs

\* os.path.dirname
DirName(path) == IF path = <<>> THEN <<>> ELSE SubSeq(path, 1, Len(path) - 1)

\* the directories os.makedirs(dir) leaves in existence
MakeDirs(dir) == {SubSeq(dir, 1, k) : k \in 1..Len(dir)}

(***************************************************************************)
(* Python values of keyword options.                                       *)
(***************************************************************************)
PyNone == [t |-> "none"]
PyStr(str) == [t |-> "str", s |-> str]
PyInt(i) == [t |-> "int", i |-> i]

\* bool(v)
Truthy(v) ==
    CASE v.t = "none" -> FALSE
      [] v.t = "str"  -> v.s # <<>>
      [] v.t = "int"  -> v.i # 0

\* str(v), as an argv element
ToStr(v) ==
    CASE v.t = "none" -> S("None")
      [] v.t = "str"  -> v.s
      [] v.t = "int"  -> S(IntToStr(v.i))

\* keyword options are an insertion-ordered dict: a sequence of [key, val]
HasKey(options, key) == \E i \in 1..Len(options) : options[i].key = key

\* options.pop(key, default): the value
PopValue(options, key, default) ==
    IF HasKey(options, key)
    THEN options[CHOOSE i \in 1..Len(options) : options[i].key = key].val
    ELSE default

\* options.pop(key, default): the dict that is left
PopRest(options, key) == SelectSeq(options, LAMBDA o : o.key # key)

(***************************************************************************)
(* The external process.  A child is [launch, rc, stdout, stderr, prog]:   *)
(* whether the executable can be launched, its exit status, what it        *)
(* prints when run synchronously, and, run with pipes, the sequence of     *)
(* lines it writes to them.                                                *)
(***************************************************************************)
\* subprocess.run(cmd, **kwargs) with kwargs capture_output and check
SubprocessRun(kw, ch) ==
    IF ~ch.launch
    THEN [exc |-> "FileNotFoundError", rc |-> 0, stdout |-> None, stderr |-> None]
    ELSE IF kw.check /\ ch.rc # 0
    THEN [exc |-> "CalledProcessError", rc |-> ch.rc,
          stdout |-> IF kw.capture THEN Some(ch.stdout) ELSE None,
          stderr |-> IF kw.capture THEN Some(ch.stderr) ELSE None]
    ELSE [exc |-> "", rc |-> ch.rc,
          stdout |-> IF kw.capture THEN Some(ch.stdout) ELSE None,
          stderr |-> IF kw.capture THEN Some(ch.stderr) ELSE None]

\* one error-level log record
LogRecord(msg, rc, text, exc) == [msg |-> msg, rc |-> rc, text |-> text, exc |-> exc]

FailureLogsAlways(tool, r) ==
    <<LogRecord(tool \o " command failed with return code", r.rc, <<>>, "")>>

\* lines 85-88, 167-170, 192-195: what a returned result makes the logger emit
FailureLogs(tool, r) ==
    IF r.rc # 0
    THEN <<LogRecord(tool \o " command failed with return code", r.rc, <<>>, "")>>
         \o (IF ~IsNone(r.stderr) /\ Val(r.stderr) # <<>>
             THEN <<LogRecord(tool \o " stderr", 0, Val(r.stderr), "")>>
             ELSE <<>>)
    ELSE <<>>

\* lines 90-92, 174-176, 197-199: what a raised exception makes the logger emit
ExceptionLogs(tool, exc) == <<LogRecord(tool \o " command failed", 0, <<>>, exc)>>

FfmpegCmdNoThreads(args) == <<_get_bundled_ffmpeg_path>> \o args

\* lines 75-79 and 106-110: the ffmpeg command line
FfmpegCmd(args) ==
    <<_get_bundled_ffmpeg_path>> \o args
    \o (IF max_threads > 0
        THEN <<S("-threads"), S(IntToStr(max_threads))>>
        ELSE <<>>)

\* lines 106-113: the command line of the progress executor
ProgressCmd(args) == FfmpegCmd(args) \o <<S("-progress"), S("pipe:2")>>

\* line 186: the ffprobe command line
FfprobeCmd(args) == <<_get_bundled_ffprobe_path>> \o args

\* What one execution does besides returning: kind is "returned", "raised"
\* or "started" (a progress execution whose child is now running).
Effect(kind, exc, value, cmds, logs) ==
    [kind |-> kind, exc |-> exc, value |-> value, cmds |-> cmds, logs |-> logs,
     newdirs |-> {}, conv |-> <<>>]

ResultValue(r) ==
    [tag |-> "result", returncode |-> r.rc, stdout |-> r.stdout, stderr |-> r.stderr]

NoValue == [tag |-> "none"]

\* lines 83-92 and 190-199: run to completion, log, return or re-raise
RunAndLog(tool, cmd, kw, ch) ==
    LET r == SubprocessRun(kw, ch)
    IN  IF r.exc # ""
        THEN Effect("raised", r.exc, NoValue, <<cmd>>, ExceptionLogs(tool, r.exc))
        ELSE Effect("returned", "", ResultValue(r), <<cmd>>, FailureLogs(tool, r))

\* execute_ffmpeg_command (lines 67-92)
execute_ffmpeg_command(args, kw, ch) == RunAndLog("FFmpeg", FfmpegCmd(args), kw, ch)

\* execute_ffprobe_command (lines 178-199)
execute_ffprobe_command(args, kw, ch) == RunAndLog("FFprobe", FfprobeCmd(args), kw, ch)

\* execute_ffmpeg_with_progress up to the start of the monitor thread
\* (lines 106-148): Popen either fails, which is logged and re-raised, or
\* leaves a running child
execute_ffmpeg_with_progress(args, ch) ==
    IF ~ch.launch
    THEN Effect("raised", "FileNotFoundError", NoValue, <<ProgressCmd(args)>>,
                ExceptionLogs("FFmpeg", "FileNotFoundError"))
    ELSE Effect("started", "", NoValue, <<ProgressCmd(args)>>, <<>>)

(***************************************************************************)
(* The operations of the wrapper, as effects on the state [fs: files and   *)
(* directories, settings: the framework's settings provider].              *)
(***************************************************************************)
CaptureText == [capture |-> TRUE, check |-> FALSE]
CaptureTextCheck == [capture |-> TRUE, check |-> TRUE]

DefaultCodecFixed(provider, key, fixed) == fixed

\* lines 302-305 and 312-315: self._framework.settings.get(key, fixed),
\* with AttributeError (no settings provider) caught
DefaultCodec(provider, key, fixed) ==
    IF ~provider.present THEN fixed
    ELSE DictGet(provider.dict, key, fixed)

\* lines 322-324: the remaining options as "-key value" pairs
RECURSIVE OtherOptions(_)
OtherOptions(options) ==
    IF options = <<>> THEN <<>>
    ELSE (IF Head(options).val.t # "none"
          THEN <<S("-" \o Head(options).key), ToStr(Head(options).val)>>
          ELSE <<>>)
         \o OtherOptions(Tail(options))

\* lines 299-328: the argument vector of convert_video
ConvertArgs(input_path, output_path, options, provider) ==
    LET default_video_codec ==
            DefaultCodec(provider, "default_video_codec", S("libx264"))
        vcodec == PopValue(options, "vcodec", PyStr(default_video_codec))
        opts1  == PopRest(options, "vcodec")
        default_audio_codec ==
            DefaultCodec(provider, "default_audio_codec", S("aac"))
        acodec == PopValue(opts1, "acodec", PyStr(default_audio_codec))
        opts2  == PopRest(opts1, "acodec")
    IN  <<S("-i"), input_path>>
        \o (IF Truthy(vcodec) THEN <<S("-vcodec"), ToStr(vcodec)>> ELSE <<>>)
        \o (IF Truthy(acodec) THEN <<S("-acodec"), ToStr(acodec)>> ELSE <<>>)
        \o OtherOptions(opts2)
        \o <<S("-y"), output_path>>

\* one invocation of convert_video, as recorded for the callers' contracts
ConvertCall(input_path, output_path, cb, options) ==
    [input |-> input_path, output |-> output_path, cb |-> cb, options |-> options]

\* convert_video (lines 280-334); cb is "none" when no callback is given
convert_video(input_path, output_path, cb, options, ch, fs, provider) ==
    IF ~PathExists(input_path, fs.files, fs.dirs)
    THEN [Effect("raised", "ValueError", NoValue, <<>>, <<>>)
            EXCEPT !.conv = <<ConvertCall(input_path, output_path, cb, options)>>]
    ELSE LET output_dir == DirName(output_path)
             made == IF output_dir # <<>> /\ ~PathExists(output_dir, fs.files, fs.dirs)
                     THEN MakeDirs(output_dir)
                     ELSE {}
             args == ConvertArgs(input_path, output_path, options, provider)
             run  == IF cb # "none"
                     THEN execute_ffmpeg_with_progress(args, ch)
                     ELSE execute_ffmpeg_command(args, CaptureText, ch)
         IN  [run EXCEPT !.newdirs = made,
                         !.conv = <<ConvertCall(input_path, output_path, cb, options)>>]

\* lines 478-484: resolution_map.get(resolution, resolution)
ResolutionTarget(resolution) ==
    CASE resolution = "720p"  -> "1280x720"
      [] resolution = "1080p" -> "1920x1080"
      [] resolution = "480p"  -> "854x480"
      [] OTHER                -> resolution

QualitySettingsFast(quality) == [crf |-> "28", preset |-> "fast"]

\* lines 487-493: quality_map.get(quality, quality_map['medium'])
QualitySettings(quality) ==
    CASE quality = "fast"   -> [crf |-> "28", preset |-> "fast"]
      [] quality = "medium" -> [crf |-> "23", preset |-> "medium"]
      [] quality = "slow"   -> [crf |-> "18", preset |-> "slow"]
      [] OTHER              -> [crf |-> "23", preset |-> "medium"]

\* create_proxy (lines 467-501)
create_proxy(input_path, output_path, resolution, quality, ch, fs, provider) ==
    LET target_res == ResolutionTarget(resolution)
        settings_  == QualitySettings(quality)
    IN  convert_video(input_path, output_path, "none",
                      <<[key |-> "vf", val |-> PyStr(S("scale=" \o target_res))],
                        [key |-> "crf", val |-> PyStr(S(settings_.crf))],
                        [key |-> "preset", val |-> PyStr(S(settings_.preset))]>>,
                      ch, fs, provider)

\* json.loads(result.stdout): the text is [valid, format, streams]
JsonValid(text) == text.valid

\* get_video_info (lines 212-278)
get_video_info(video_path, ch, fs) ==
    IF ~PathExists(video_path, fs.files, fs.dirs)
    THEN Effect("raised", "ValueError", NoValue, <<>>, <<>>)
    ELSE LET args == <<S("-v"), S("quiet"), S("-print_format"), S("json"),
                       S("-show_format"), S("-show_streams"), video_path>>
             run  == execute_ffprobe_command(args, CaptureTextCheck, ch)
         IN  IF run.kind = "raised" /\ run.exc = "CalledProcessError"
             THEN [run EXCEPT !.logs = @ \o
                     <<LogRecord("ffprobe command failed", 0, <<>>, run.exc)>>]
             ELSE IF run.kind = "raised" THEN run
             ELSE IF ~JsonValid(Val(run.value.stdout))
             THEN [run EXCEPT !.kind = "raised", !.exc = "JSONDecodeError",
                              !.value = NoValue,
                              !.logs = @ \o <<LogRecord("Failed to parse ffprobe output",
                                                        0, <<>>, "JSONDecodeError")>>]
             ELSE LET parsed == ParseVideoInfo(Val(run.value.stdout))
                  IN  IF parsed.exc # ""
                      THEN [run EXCEPT !.kind = "raised", !.exc = parsed.exc,
                                       !.value = NoValue]
                      ELSE [run EXCEPT !.value = [tag |-> "info", info |-> parsed.info]]

\* get_stream_info (lines 400-432); stream_type is None or Some(characters)
get_stream_info(media_path, stream_type, ch, fs) ==
    IF ~PathExists(media_path, fs.files, fs.dirs)
    THEN Effect("raised", "ValueError", NoValue, <<>>, <<>>)
    ELSE LET args == <<S("-v"), S("quiet"), S("-print_format"), S("json"),
                       S("-show_streams")>>
                     \o (IF ~IsNone(stream_type) /\ Val(stream_type) # <<>>
                         THEN <<S("-select_streams"), S(Head(Val(stream_type)))>>
                         ELSE <<>>)
                     \o <<media_path>>
             run  == execute_ffprobe_command(args, CaptureTextCheck, ch)
         IN  IF run.kind = "raised" /\ run.exc = "CalledProcessError"
             THEN [run EXCEPT !.logs = @ \o
                     <<LogRecord("ffprobe command failed", 0, <<>>, run.exc)>>]
             ELSE IF run.kind = "raised" THEN run
             ELSE IF ~JsonValid(Val(run.value.stdout))
             THEN [run EXCEPT !.kind = "raised", !.exc = "JSONDecodeError",
                              !.value = NoValue,
                              !.logs = @ \o <<LogRecord("Failed to parse ffprobe output",
                                                        0, <<>>, "JSONDecodeError")>>]
             ELSE LET data == Val(run.value.stdout)
                  IN  [run EXCEPT !.value =
                         [tag |-> "streams",
                          streams |-> IF IsNone(data.streams) THEN <<>>
                                      ELSE Val(data.streams)]]

\* validate_media_file (lines 379-398)
validate_media_file(media_path, ch) ==
    LET args == <<S("-v"), S("error"), S("-show_entries"), S("format=duration"),
                  S("-of"), S("csv=p=0"), media_path>>
        run  == execute_ffprobe_command(args, CaptureText, ch)
    IN  IF run.kind = "raised"
        THEN [run EXCEPT !.kind = "returned", !.exc = "",
                         !.value = [tag |-> "bool", bool |-> FALSE]]
        ELSE [run EXCEPT !.value = [tag |-> "bool",
                                    bool |-> run.value.returncode = 0]]

\* extract_frames (lines 434-465); the optional numbers are None or Some(int)
extract_frames(video_path, output_pattern, start_time, duration, fps, ch) ==
    LET args == (IF ~IsNone(start_time)
                 THEN <<S("-ss"), S(IntToStr(Val(start_time)))>> ELSE <<>>)
                \o <<S("-i"), video_path>>
                \o (IF ~IsNone(duration)
                    THEN <<S("-t"), S(IntToStr(Val(duration)))>> ELSE <<>>)
                \o (IF ~IsNone(fps)
                    THEN <<S("-vf"), S("fps=" \o IntToStr(Val(fps)))>> ELSE <<>>)
                \o <<S("-y"), output_pattern>>
    IN  execute_ffmpeg_command(args, CaptureText, ch)

\* create_thumbnail (lines 503-520)
create_thumbnail(video_path, output_path, time_offset, ch) ==
    LET args == <<S("-i"), video_path, S("-ss"), S(time_offset),
                  S("-vframes"), S("1"), S("-y"), output_path>>
    IN  execute_ffmpeg_command(args, CaptureText, ch)

(***************************************************************************)
(* Inputs the calls are explored with.                                     *)
(***************************************************************************)
ExistingFile == <<"shots", "a.mov">>
MissingFile == <<"shots", "b.mov">>
InputPaths == {ExistingFile, MissingFile}
OutputPaths == {<<"p.mp4">>, <<"out", "p.mp4">>, <<"out", "sub", "p.mp4">>}

\* the framework: without settings, or with a settings dict
Providers ==
    {[present |-> FALSE, dict |-> <<>>],
     [present |-> TRUE, dict |-> <<>>],
     [present |-> TRUE, dict |-> [default_video_codec |-> S("prores_ks")]],
     [present |-> TRUE, dict |-> [default_video_codec |-> S("prores_ks"),
                                  default_audio_codec |-> S("pcm_s16le")]]}

\* progress_callback: absent, a function that returns, a function that raises
Callbacks == {"none", "ok", "raises"}

ExitCodes == {0, 1, 2}

SeqsUpTo(set, k) == UNION {[1..n -> set] : n \in 0..k}

\* lines of text, as characters
TimeLine == <<" ", "t", "i", "m", "e", "=", "5", " ", "\n">>
SpeedLine == <<"s", "p", "e", "e", "d", "=", "2", "\n">>
OutLine == <<"o", "k", "\n">>
ErrorText == <<<<"n", "o", " ", "s", "u", "c", "h", " ", "f", "i", "l", "e", "\n">>>>

\* text that is not JSON
NoText == [valid |-> FALSE, format |-> None, streams |-> None]

RateString(n, d) == IntToChars(n) \o <<"/">> \o IntToChars(d)

VideoStream(n, d) ==
    [codec_type |-> "video", width |-> 1920, height |-> 1080,
     codec_name |-> "h264", r_frame_rate |-> RateString(n, d)]

StreamPalette ==
    {VideoStream(30000, 1001),
     [codec_type |-> "video", width |-> 640, height |-> 360,
      codec_name |-> "mjpeg", r_frame_rate |-> RateString(25, 0)],
     [codec_type |-> "video", codec_name |-> "png"],
     [codec_type |-> "audio", codec_name |-> "aac"],
     [codec_type |-> "audio", codec_name |-> "mp3"],
     [codec_type |-> "subtitle", codec_name |-> "srt"]}

FormatSection ==
    [duration |-> <<"1", "2", ".", "5">>,
     bit_rate |-> <<"1", "2", "8", "0", "0", "0">>,
     size |-> <<"5", "0", "0", "0", "0", "0">>]

Numerators == (-MaxNum..MaxNum) \cup {30000}
Denominators == (-MaxDen..MaxDen) \cup {1001}

\* probe documents: every rate on one video stream, and every short list of
\* streams of the palette
ProbeDocs ==
    {[valid |-> TRUE, format |-> None, streams |-> Some(<<VideoStream(n, d)>>)] :
        n \in Numerators, d \in Denominators}
    \cup {[valid |-> TRUE, format |-> Some(FormatSection), streams |-> Some(ss)] :
            ss \in SeqsUpTo(StreamPalette, MaxStreams)}
    \cup {[valid |-> TRUE, format |-> None, streams |-> None],
          [valid |-> TRUE, format |-> Some([duration |-> <<"N", "/", "A">>]),
           streams |-> None]}

FailedLaunch ==
    [launch |-> FALSE, rc |-> 0, stdout |-> NoText, stderr |-> <<>>, prog |-> <<>>]

\* children run to completion by subprocess.run
SyncChildren ==
    {FailedLaunch}
    \cup {[launch |-> TRUE, rc |-> rc, stdout |-> NoText, stderr |-> e, prog |-> <<>>] :
            rc \in ExitCodes, e \in {<<>>, ErrorText}}

\* ffprobe children: failing ones, and successful ones printing a document
ProbeChildren ==
    SyncChildren
    \cup {[launch |-> TRUE, rc |-> 0, stdout |-> doc, stderr |-> <<>>, prog |-> <<>>] :
            doc \in ProbeDocs}

WriteOps ==
    {[fd |-> "out", line |-> OutLine], [fd |-> "err", line |-> TimeLine],
     [fd |-> "err", line |-> SpeedLine]}

\* a child that keeps reporting to stderr, as ffmpeg does under
\* "-progress pipe:2": a line with a time marker, then more lines than a
\* pipe holds
ProgressReporter ==
    [i \in 1..(PipeCap + 2) |->
        [fd |-> "err", line |-> IF i = 1 THEN TimeLine ELSE SpeedLine]]

\* children run with pipes: they write their lines in order, then exit
PipeChildren ==
    {FailedLaunch}
    \cup {[launch |-> TRUE, rc |-> rc, stdout |-> NoText, stderr |-> <<>>, prog |-> pr] :
            rc \in {0, 2}, pr \in SeqsUpTo(WriteOps, MaxLines) \cup {ProgressReporter}}

ArgVectors ==
    {<<S("-version")>>, <<S("-i"), ExistingFile, S("-y"), <<"out", "p.mp4">>>>}

Kwargs == [capture : BOOLEAN, check : BOOLEAN]

OptionChoices ==
    {<<>>,
     <<[key |-> "vcodec", val |-> PyStr(S("mpeg4"))]>>,
     <<[key |-> "crf", val |-> PyInt(23)], [key |-> "acodec", val |-> PyStr(S("mp3"))],
       [key |-> "vcodec", val |-> PyNone], [key |-> "an", val |-> PyNone]>>,
     <<[key |-> "acodec", val |-> PyStr(<<>>)], [key |-> "preset", val |-> PyStr(S("slow"))]>>}

Resolutions == {"720p", "1080p", "480p", "640x360", "4k"}
Qualities == {"fast", "medium", "slow", "ultra", "FAST"}

(***************************************************************************)
(* State.                                                                  *)
(***************************************************************************)
VARIABLES
    files,       \* the files that exist
    dirs,        \* the directories that exist
    settings,    \* self._framework's settings provider
    call,        \* the call in progress or last made, with its arguments
    child,       \* the external process of that call
    dirsBefore,  \* the directories that existed when the call was made
    launched,    \* the command lines the call handed to subprocess
    errlog,      \* the records the call logged at error level
    convCalls,   \* the convert_video invocations of the call
    outcome,     \* how the call ended: returned a value or raised
    phase,       \* the calling thread: "idle", "poll" (lines 151-153), "done"
    mon,         \* the monitor thread: "off", "poll", "read", "got", "done"
                 \* (loop ended at line 130), "broke" (ended at line 143)
    monLine,     \* the line the monitor thread has just read
    proc,        \* the Popen object: the child and its two pipes
    callbacks    \* the texts the progress callback was invoked with

vars == <<files, dirs, settings, call, child, dirsBefore, launched, errlog,
          convCalls, outcome, phase, mon, monLine, proc, callbacks>>

NoCall ==
    [op |-> "none", input |-> <<>>, output |-> <<>>, cb |-> "none", args |-> <<>>,
     kw |-> CaptureText, options |-> <<>>, resolution |-> "", quality |-> ""]

NoProc == [alive |-> FALSE, ip |-> 1, out |-> <<>>, err |-> <<>>, closed |-> FALSE]

Init ==
    /\ files = {ExistingFile}
    /\ dirs = {<<"shots">>}
    /\ settings \in Providers
    /\ call = NoCall
    /\ child = FailedLaunch
    /\ dirsBefore = {<<"shots">>}
    /\ launched = <<>>
    /\ errlog = <<>>
    /\ convCalls = <<>>
    /\ outcome = [kind |-> "none", exc |-> "", value |-> NoValue]
    /\ phase = "idle"
    /\ mon = "off"
    /\ monLine = <<>>
    /\ proc = NoProc
    /\ callbacks = <<>>

fs == [files |-> files, dirs |-> dirs]

\* no call is running
Idle == phase = "idle"

\* a call is made: its effect up to the point where it returns, raises or
\* leaves a child running
Start(c, ch, eff) ==
    /\ call' = c
    /\ child' = ch
    /\ dirsBefore' = dirs
    /\ dirs' = dirs \cup eff.newdirs
    /\ launched' = eff.cmds
    /\ errlog' = eff.logs
    /\ convCalls' = eff.conv
    /\ callbacks' = <<>>
    /\ monLine' = <<>>
    /\ IF eff.kind = "started"
       THEN /\ phase' = "poll"
            /\ mon' = IF c.cb # "none" THEN "poll" ELSE "off"
            /\ proc' = [NoProc EXCEPT !.alive = TRUE]
            /\ outcome' = [kind |-> "pending", exc |-> "", value |-> NoValue]
       ELSE /\ phase' = "done"
            /\ mon' = "off"
            /\ proc' = NoProc
            /\ outcome' = [kind |-> eff.kind, exc |-> eff.exc, value |-> eff.value]
    /\ UNCHANGED <<files, settings>>

(***************************************************************************)
(* The calls.                                                              *)
(***************************************************************************)
ExecuteFfmpegCommand ==
    /\ Idle
    /\ \E args \in ArgVectors, kw \in Kwargs, ch \in SyncChildren :
        Start([NoCall EXCEPT !.op = "execute_ffmpeg_command", !.args = args, !.kw = kw],
              ch, execute_ffmpeg_command(args, kw, ch))

ExecuteFfprobeCommand ==
    /\ Idle
    /\ \E args \in ArgVectors, kw \in Kwargs, ch \in SyncChildren :
        Start([NoCall EXCEPT !.op = "execute_ffprobe_command", !.args = args, !.kw = kw],
              ch, execute_ffprobe_command(args, kw, ch))

ExecuteFfmpegWithProgress ==
    /\ Idle
    /\ \E cb \in Callbacks, ch \in PipeChildren :
        LET args == <<S("-i"), ExistingFile, S("-y"), <<"out", "p.mp4">>>>
        IN  Start([NoCall EXCEPT !.op = "execute_ffmpeg_with_progress",
                                 !.args = args, !.cb = cb],
                  ch, execute_ffmpeg_with_progress(args, ch))

ConvertVideo ==
    /\ Idle
    /\ \E input_path \in InputPaths, output_path \in OutputPaths, cb \in Callbacks,
       options \in OptionChoices :
        \E ch \in IF cb = "none" THEN SyncChildren ELSE PipeChildren :
            Start([NoCall EXCEPT !.op = "convert_video", !.input = input_path,
                                 !.output = output_path, !.cb = cb,
                                 !.options = options],
                  ch,
                  convert_video(input_path, output_path, cb, options, ch, fs, settings))

CreateProxy ==
    /\ Idle
    /\ \E input_path \in InputPaths, output_path \in OutputPaths,
       resolution \in Resolutions, quality \in Qualities, ch \in SyncChildren :
        Start([NoCall EXCEPT !.op = "create_proxy", !.input = input_path,
                             !.output = output_path, !.resolution = resolution,
                             !.quality = quality],
              ch,
              create_proxy(input_path, output_path, resolution, quality, ch, fs,
                           settings))

GetVideoInfo ==
    /\ Idle
    /\ \E video_path \in InputPaths, ch \in ProbeChildren :
        Start([NoCall EXCEPT !.op = "get_video_info", !.input = video_path],
              ch, get_video_info(video_path, ch, fs))

GetStreamInfo ==
    /\ Idle
    /\ \E media_path \in InputPaths,
       stream_type \in {None, Some(<<"v", "i", "d", "e", "o">>),
                        Some(<<"a", "u", "d", "i", "o">>)},
       ch \in SyncChildren
              \cup {[FailedLaunch EXCEPT !.launch = TRUE, !.stdout =
                       [valid |-> TRUE, format |-> None, streams |-> Some(ss)]] :
                       ss \in SeqsUpTo(StreamPalette, 1)} :
        Start([NoCall EXCEPT !.op = "get_stream_info", !.input = media_path,
                             !.options = stream_type],
              ch, get_stream_info(media_path, stream_type, ch, fs))

ValidateMediaFile ==
    /\ Idle
    /\ \E media_path \in InputPaths, ch \in SyncChildren :
        Start([NoCall EXCEPT !.op = "validate_media_file", !.input = media_path],
              ch, validate_media_file(media_path, ch))

ExtractFrames ==
    /\ Idle
    /\ \E video_path \in InputPaths,
       output_pattern \in {<<"f_%04d.png">>, <<"frames", "f_%04d.png">>},
       start_time \in {None, Some(5)}, duration \in {None, Some(10)},
       fps \in {None, Some(24)}, ch \in SyncChildren :
        Start([NoCall EXCEPT !.op = "extract_frames", !.input = video_path,
                             !.output = output_pattern,
                             !.options = <<start_time, duration, fps>>],
              ch,
              extract_frames(video_path, output_pattern, start_time, duration, fps, ch))

CreateThumbnail ==
    /\ Idle
    /\ \E video_path \in InputPaths, output_path \in OutputPaths, ch \in SyncChildren :
        Start([NoCall EXCEPT !.op = "create_thumbnail", !.input = video_path,
                             !.output = output_path],
              ch, create_thumbnail(video_path, output_path, "00:00:01", ch))

(***************************************************************************)
(* The progress execution (lines 117-172): the child, the monitor thread   *)
(* and the calling thread run concurrently.                                *)
(***************************************************************************)
\* the child writes its next line, and blocks while the pipe is full
ChildWrite ==
    /\ proc.alive
    /\ proc.ip <= Len(child.prog)
    /\ LET w == child.prog[proc.ip]
       IN  IF w.fd = "out"
           THEN /\ Len(proc.out) < PipeCap
                /\ proc' = [proc EXCEPT !.out = Append(@, w.line), !.ip = @ + 1]
           ELSE /\ Len(proc.err) < PipeCap
                /\ proc' = [proc EXCEPT !.err = Append(@, w.line), !.ip = @ + 1]
    /\ UNCHANGED <<files, dirs, settings, call, child, dirsBefore, launched, errlog,
                   convCalls, outcome, phase, mon, monLine, callbacks>>

\* the child has written everything and exits
ChildExit ==
    /\ proc.alive
    /\ proc.ip > Len(child.prog)
    /\ proc' = [proc EXCEPT !.alive = FALSE]
    /\ UNCHANGED <<files, dirs, settings, call, child, dirsBefore, launched, errlog,
                   convCalls, outcome, phase, mon, monLine, callbacks>>

\* line 130: while process.poll() is None
MonitorPoll ==
    /\ mon = "poll"
    /\ mon' = IF proc.alive THEN "read" ELSE "done"
    /\ UNCHANGED <<files, dirs, settings, call, child, dirsBefore, launched, errlog,
                   convCalls, outcome, phase, monLine, proc, callbacks>>

\* line 133: process.stderr.readline() returns a line, returns '' at the end
\* of the stream, raises once the stream is closed, and blocks otherwise
MonitorRead ==
    /\ mon = "read"
    /\ \/ /\ proc.closed
          /\ mon' = "broke"
          /\ UNCHANGED <<monLine, proc>>
       \/ /\ ~proc.closed
          /\ proc.err # <<>>
          /\ monLine' = Head(proc.err)
          /\ proc' = [proc EXCEPT !.err = Tail(@)]
          /\ mon' = "got"
       \/ /\ ~proc.closed
          /\ proc.err = <<>>
          /\ ~proc.alive
          /\ mon' = "poll"
          /\ UNCHANGED <<monLine, proc>>
    /\ UNCHANGED <<files, dirs, settings, call, child, dirsBefore, launched, errlog,
                   convCalls, outcome, phase, callbacks>>

TimeMarker == <<"t", "i", "m", "e", "=">>

HasAnyText(line) == line # <<>>

\* line 136: "time=" in line
HasTimeMarker(line) == Contains(line, TimeMarker)

\* line 138: f"FFmpeg: {line.strip()}"
ProgressText(line) == <<"F", "F", "m", "p", "e", "g", ":", " ">> \o Strip(line)

\* lines 134-143: the callback is invoked on a line with a time marker; an
\* exception it raises ends the loop
MonitorCallback ==
    /\ mon = "got"
    /\ IF HasTimeMarker(monLine)
       THEN /\ callbacks' = Append(callbacks, ProgressText(monLine))
            /\ mon' = IF call.cb = "raises" THEN "broke" ELSE "poll"
       ELSE /\ mon' = "poll"
            /\ UNCHANGED callbacks
    /\ UNCHANGED <<files, dirs, settings, call, child, dirsBefore, launched, errlog,
                   convCalls, outcome, phase, monLine, proc>>

\* line 165: the result object of the progress executor
ProcessResult(returncode, stdout, stderr) ==
    [exc |-> "", rc |-> returncode, stdout |-> Some(stdout), stderr |-> Some(stderr)]

\* lines 151-172: the caller sleeps while the child runs; once it has exited
\* communicate() drains and closes both pipes, and the result is returned
CallerWait ==
    /\ phase = "poll"
    /\ \/ /\ proc.alive
          /\ UNCHANGED vars
       \/ /\ ~proc.alive
          /\ LET result == ProcessResult(child.rc, proc.out, proc.err)
             IN  /\ outcome' = [kind |-> "returned", exc |-> "",
                                value |-> ResultValue(result)]
                 /\ errlog' = errlog \o FailureLogs("FFmpeg", result)
          /\ proc' = [proc EXCEPT !.out = <<>>, !.err = <<>>, !.closed = TRUE]
          /\ phase' = "done"
          /\ UNCHANGED <<files, dirs, settings, call, child, dirsBefore, launched,
                         convCalls, mon, monLine, callbacks>>

\* the caller has its result (or exception), and the monitor thread of the
\* call, if any, has ended: the wrapper is ready for the next call
Return ==
    /\ phase = "done"
    /\ mon \in {"off", "done", "broke"}
    /\ call' = NoCall
    /\ child' = FailedLaunch
    /\ dirsBefore' = dirs
    /\ launched' = <<>>
    /\ errlog' = <<>>
    /\ convCalls' = <<>>
    /\ outcome' = [kind |-> "none", exc |-> "", value |-> NoValue]
    /\ phase' = "idle"
    /\ mon' = "off"
    /\ monLine' = <<>>
    /\ proc' = NoProc
    /\ callbacks' = <<>>
    /\ UNCHANGED <<files, dirs, settings>>

Next ==
    \/ ExecuteFfmpegCommand
    \/ ExecuteFfprobeCommand
    \/ ExecuteFfmpegWithProgress
    \/ ConvertVideo
    \/ CreateProxy
    \/ GetVideoInfo
    \/ GetStreamInfo
    \/ ValidateMediaFile
    \/ ExtractFrames
    \/ CreateThumbnail
    \/ ChildWrite
    \/ ChildExit
    \/ MonitorPoll
    \/ MonitorRead
    \/ MonitorCallback
    \/ CallerWait
    \/ Return

Spec == Init /\ [][Next]_vars

(***************************************************************************)
(* Properties.                                                             *)
(***************************************************************************)
Executors ==
    {"execute_ffmpeg_command", "execute_ffprobe_command",
     "execute_ffmpeg_with_progress"}

\* the call ended by returning a result object
ReturnedResult ==
    phase = "done" /\ outcome.kind = "returned" /\ outcome.value.tag = "result"

\* a progress execution with a callback whose child has been launched
ProgressCall ==
    /\ call.op \in {"execute_ffmpeg_with_progress", "convert_video"}
    /\ call.cb # "none"
    /\ child.launch
    /\ phase \in {"poll", "done"}
    /\ outcome.kind \in {"pending", "returned"}

\* the stderr lines with a time marker that the child writes, in order
TimeLinesWritten ==
    SelectSeq(child.prog, LAMBDA w : w.fd = "err" /\ Contains(w.line, TimeMarker))

RECURSIVE IsSubseq(_, _)
IsSubseq(a, b) ==
    IF a = <<>> THEN TRUE
    ELSE IF b = <<>> THEN FALSE
    ELSE IF Head(a) = Head(b) THEN IsSubseq(Tail(a), Tail(b))
    ELSE IsSubseq(a, Tail(b))

\* C1 as claimed: when a progress execution with a callback has returned and
\* its monitor thread has ended, and the child wrote a stderr line containing
\* "time=", the callback was invoked at least once with a text containing
\* the marker, and the result's returncode is the child's exit status.
C1_CallbackAtLeastOnce ==
    (ProgressCall /\ ReturnedResult /\ mon = "done" /\ TimeLinesWritten # <<>>)
        => /\ \E k \in 1..Len(callbacks) : Contains(callbacks[k], TimeMarker)
           /\ outcome.value.returncode = child.rc

\* C1 as amended: every invocation of the callback carries "FFmpeg: " and the
\* stripped text of a stderr line containing "time=" that the child wrote,
\* in the order written and at most once per line (possibly never: a line
\* written as the child exits can be missed); and the returned result's
\* returncode is the child's exit status.
C1_CallbacksAreTimeLines ==
    ProgressCall
        => /\ \A k \in 1..Len(callbacks) : Contains(callbacks[k], TimeMarker)
           /\ IsSubseq(callbacks,
                       [i \in 1..Len(TimeLinesWritten) |->
                           <<"F", "F", "m", "p", "e", "g", ":", " ", "t", "i", "m",
                             "e", "=", "5">>])
           /\ ReturnedResult => outcome.value.returncode = child.rc

C1_Witness ==
    /\ ProgressCall /\ ReturnedResult /\ mon = "done"
    /\ call.cb = "ok"
    /\ Len(callbacks) = 2
    /\ outcome.value.returncode = 2

\* C2 as claimed: an executor whose child was launched and exits with a
\* non-zero status returns a result with that status and logs the captured
\* diagnostic text, without raising; an error is logged if and only if the
\* exit status is non-zero.
C2_NonZeroExitReturned ==
    (phase = "done" /\ call.op \in Executors /\ child.launch)
        => /\ (errlog # <<>>) <=> (child.rc # 0)
           /\ child.rc # 0
                => /\ outcome.kind = "returned"
                   /\ outcome.value.returncode = child.rc
                   /\ (~IsNone(outcome.value.stderr) /\ Val(outcome.value.stderr) # <<>>)
                        => \E i \in 1..Len(errlog) :
                              errlog[i].text = Val(outcome.value.stderr)

\* C2 as amended: the same, for executions not asked to check the exit status
\* (no check=True among the keyword arguments); with check=True a synchronous
\* executor logs the failure and re-raises CalledProcessError.  The diagnostic
\* text is logged when it was captured and is not empty.
C2_NonZeroExitUnlessCheck ==
    (phase = "done" /\ call.op \in Executors /\ child.launch)
        => /\ (errlog # <<>>) <=> (child.rc # 0)
           /\ (child.rc = 0 \/ ~call.kw.check)
                => /\ outcome.kind = "returned"
                   /\ outcome.value.returncode = child.rc
                   /\ call.op # "execute_ffmpeg_with_progress"
                        => outcome.value.stderr =
                             IF call.kw.capture THEN Some(child.stderr) ELSE None
                   /\ child.rc # 0 => errlog[1].rc = child.rc
                   /\ (child.rc # 0 /\ ~IsNone(outcome.value.stderr)
                         /\ Val(outcome.value.stderr) # <<>>)
                        => /\ Len(errlog) = 2
                           /\ errlog[2].text = Val(outcome.value.stderr)
           /\ (child.rc # 0 /\ call.kw.check)
                => /\ outcome.kind = "raised"
                   /\ outcome.exc = "CalledProcessError"
                   /\ errlog[1].exc = "CalledProcessError"

C2_Witness ==
    /\ phase = "done"
    /\ call.op = "execute_ffmpeg_command"
    /\ ~call.kw.check /\ call.kw.capture
    /\ child.launch /\ child.rc = 2 /\ child.stderr = ErrorText
    /\ outcome.kind = "returned"
    /\ Len(errlog) = 2

\* C3: a convert_video or get_video_info call whose input path does not exist
\* raises ValueError, launches no child process and creates no directory.
C3_MissingInputNoSideEffect ==
    (call.op \in {"convert_video", "get_video_info"}
        /\ call.input \notin files /\ call.input \notin dirsBefore)
        => /\ phase = "done"
           /\ outcome.kind = "raised"
           /\ outcome.exc = "ValueError"
           /\ launched = <<>>
           /\ dirs = dirsBefore
           /\ ~proc.alive

C3_Witness ==
    /\ call.op = "convert_video"
    /\ call.input = MissingFile
    /\ call.output = <<"out", "sub", "p.mp4">>
    /\ <<"out">> \notin dirs
    /\ outcome.exc = "ValueError"

ReadingOps ==
    {"convert_video", "create_proxy", "get_video_info", "get_stream_info",
     "validate_media_file", "extract_frames", "create_thumbnail"}

WritingOps == {"convert_video", "create_proxy", "create_thumbnail", "extract_frames"}

\* C4 as claimed: every operation that reads an input file fails with a value
\* error, without launching a process, when the file is absent; every
\* operation that writes an output file has the parent directory of its
\* output in existence when the process is launched.
C4_AllOperationsCheckAndCreate ==
    /\ (call.op \in ReadingOps /\ call.input \notin files /\ call.input \notin dirsBefore)
         => /\ outcome.kind = "raised"
            /\ outcome.exc = "ValueError"
            /\ launched = <<>>
    /\ (call.op \in WritingOps /\ launched # <<>>)
         => \/ DirName(call.output) = <<>>
            \/ DirName(call.output) \in dirs

\* the per-call value of a codec option, else the provider's, else the fixed one
ExpectedCodec(options, optkey, setkey, fixed) ==
    IF \E i \in 1..Len(options) : options[i].key = optkey
    THEN (options[CHOOSE i \in 1..Len(options) : options[i].key = optkey]).val
    ELSE IF settings.present /\ setkey \in DOMAIN settings.dict
    THEN PyStr(settings.dict[setkey])
    ELSE PyStr(<<fixed>>)

IsCodecName(v) == v.t = "str" /\ v.s # <<>>

\* C5: a convert_video call with an existing input reaches the launch whatever
\* the settings provider is (none, or one without the key), and the command
\* has, after "-i <input>", "-vcodec" followed by the per-call vcodec when one
\* is given, else the provider's default_video_codec when it has one, else
\* "libx264"; then "-acodec" likewise with acodec, default_audio_codec, "aac".
\* A codec that is None or empty places no flag.
C5_CodecResolution ==
    (call.op \in {"convert_video", "create_proxy"} /\ call.input \in files)
        => /\ Len(convCalls) = 1
           /\ Len(launched) = 1
           /\ outcome.exc \notin {"AttributeError", "KeyError"}
           /\ LET cmd == launched[1]
                  v   == ExpectedCodec(convCalls[1].options, "vcodec",
                                       "default_video_codec", "libx264")
                  a   == ExpectedCodec(convCalls[1].options, "acodec",
                                       "default_audio_codec", "aac")
                  at  == IF IsCodecName(v) THEN 6 ELSE 4
              IN  /\ cmd[2] = <<"-i">> /\ cmd[3] = call.input
                  /\ IF IsCodecName(v)
                     THEN cmd[4] = <<"-vcodec">> /\ cmd[5] = v.s
                     ELSE cmd[4] # <<"-vcodec">>
                  /\ IF IsCodecName(a)
                     THEN cmd[at] = <<"-acodec">> /\ cmd[at + 1] = a.s
                     ELSE cmd[at] # <<"-acodec">>

C5_Witness ==
    /\ call.op = "convert_video"
    /\ call.input \in files
    /\ call.options = <<>>
    /\ settings.present /\ DOMAIN settings.dict = {"default_video_codec"}
    /\ launched # <<>>
    /\ launched[1][5] = <<"prores_ks">>
    /\ launched[1][7] = <<"aac">>

FfmpegExe == <<"fw", "resources", "ffmpeg", "win", "ffmpeg.exe">>
FfprobeExe == <<"fw", "resources", "ffmpeg", "win", "ffprobe.exe">>

FfprobeOps ==
    {"execute_ffprobe_command", "get_video_info", "get_stream_info",
     "validate_media_file"}

\* the last k elements of a sequence
Last(seq, k) == SubSeq(seq, Len(seq) - k + 1, Len(seq))

\* C6 as claimed: a launched command is the resolved executable followed by
\* the caller's argument vector, then "-threads <n>" for every executor, then
\* "-progress pipe:2" in progress mode.
C6_EveryExecutorAddsThreads ==
    (call.op \in Executors /\ launched # <<>>)
        => launched[1] =
             <<IF call.op = "execute_ffprobe_command" THEN FfprobeExe ELSE FfmpegExe>>
             \o call.args \o <<(<<"-threads">>), (<<"4">>)>>
             \o (IF call.op = "execute_ffmpeg_with_progress"
                 THEN <<(<<"-progress">>), (<<"pipe:2">>)>> ELSE <<>>)

\* C6 as amended: a launched command is the resolved executable followed by
\* the argument vector unchanged; the two ffmpeg executors append
\* "-threads <n>" (n = 4 > 0), progress mode appends "-progress pipe:2" after
\* it; the ffprobe executor appends nothing.
C6_FfmpegExecutorsAddThreads ==
    /\ (call.op \in Executors /\ launched # <<>>)
         => launched[1] =
              IF call.op = "execute_ffprobe_command"
              THEN <<FfprobeExe>> \o call.args
              ELSE <<FfmpegExe>> \o call.args \o <<(<<"-threads">>), (<<"4">>)>>
                   \o (IF call.op = "execute_ffmpeg_with_progress"
                       THEN <<(<<"-progress">>), (<<"pipe:2">>)>> ELSE <<>>)
    /\ \A i \in 1..Len(launched) :
         IF call.op \in FfprobeOps
         THEN /\ launched[i][1] = FfprobeExe
              /\ \A j \in 1..Len(launched[i]) : launched[i][j] # <<"-threads">>
         ELSE /\ launched[i][1] = FfmpegExe
              /\ IF call.op = "execute_ffmpeg_with_progress"
                    \/ (call.op = "convert_video" /\ call.cb # "none")
                 THEN Last(launched[i], 4) =
                        <<(<<"-threads">>), (<<"4">>), (<<"-progress">>), (<<"pipe:2">>)>>
                 ELSE Last(launched[i], 2) = <<(<<"-threads">>), (<<"4">>)>>

C6_Witness ==
    /\ call.op = "execute_ffmpeg_with_progress"
    /\ phase = "poll"
    /\ Len(launched) = 1
    /\ Len(launched[1]) = 9
    /\ launched[1][9] = <<"pipe:2">>

\* the first stream of a type, None when there is none
FirstOfType(streams, type) ==
    IF \E i \in 1..Len(streams) : IsType(streams[i], type)
    THEN Some(streams[CHOOSE i \in 1..Len(streams) :
                         /\ IsType(streams[i], type)
                         /\ \A j \in 1..(i - 1) : ~IsType(streams[j], type)])
    ELSE None

GotVideoInfo ==
    /\ call.op = "get_video_info"
    /\ outcome.kind = "returned"
    /\ outcome.value.tag = "info"

DocStreams == IF IsNone(child.stdout.streams) THEN <<>> ELSE Val(child.stdout.streams)

\* C7 as claimed: get_video_info reports the width, height, codec and fps of
\* the first video stream and the codec of the first audio stream.
C7_FirstStreamsWin ==
    GotVideoInfo
        => LET v == FirstOfType(DocStreams, "video")
               a == FirstOfType(DocStreams, "audio")
               i == outcome.value.info
           IN  /\ IsNone(v) => IsNone(i.width) /\ IsNone(i.video_codec) /\ IsNone(i.fps)
               /\ ~IsNone(v)
                    => /\ i.width = StreamGet(Val(v), "width")
                       /\ i.height = StreamGet(Val(v), "height")
                       /\ i.video_codec = StreamGet(Val(v), "codec_name")
                       /\ i.fps = StreamFps(Val(v), None).fps
               /\ i.audio_codec =
                    IF IsNone(a) THEN None ELSE StreamGet(Val(a), "codec_name")

VideoStreamCount ==
    Cardinality({i \in 1..Len(DocStreams) : IsType(DocStreams[i], "video")})

C9_ProxyOptions ==
    call.op = "create_proxy"
        => /\ Len(convCalls) = 1
           /\ convCalls[1].input = call.input
           /\ convCalls[1].output = call.output
           /\ convCalls[1].cb = "none"
           /\ LET r == CASE call.resolution = "720p"  -> "scale=1280x720"
                         [] call.resolution = "1080p" -> "scale=1920x1080"
                         [] call.resolution = "480p"  -> "scale=854x480"
                         [] OTHER -> "scale=" \o call.resolution
                  c == CASE call.quality = "fast" -> "28"
                         [] call.quality = "slow" -> "18"
                         [] OTHER -> "23"
                  p == CASE call.quality = "fast" -> "fast"
                         [] call.quality = "slow" -> "slow"
                         [] OTHER -> "medium"
              IN  convCalls[1].options =
                    <<[key |-> "vf", val |-> [t |-> "str", s |-> <<r>>]],
                      [key |-> "crf", val |-> [t |-> "str", s |-> <<c>>]],
                      [key |-> "preset", val |-> [t |-> "str", s |-> <<p>>]]>>

C9_Witness ==
    /\ call.op = "create_proxy"
    /\ call.resolution = "4k"
    /\ call.quality = "ultra"
    /\ call.input \in files
    /\ launched # <<>>
    /\ \E j \in 1..Len(launched[1]) : launched[1][j] = <<"scale=4k">>

\* C10 as claimed: the child is never left blocked on a full pipe while the
\* caller polls for its exit: as long as the caller is waiting for a running
\* child, the child or the monitor thread can take a step.
C10_NoPipeDeadlock ==
    (phase = "poll" /\ proc.alive)
        => ENABLED (ChildWrite \/ ChildExit \/ MonitorPoll \/ MonitorRead
                    \/ MonitorCallback)

\* the monitor loop of the call was ended by an exception (lines 142-143)
MonitorBroke == ProgressCall /\ mon = "broke"

\* the exception that ended the loop came from the callback (a callback that
\* raises does so when it is invoked); otherwise it came from the stderr read
CallbackRaised == MonitorBroke /\ call.cb = "raises" /\ callbacks # <<>>

\* C11 as claimed: when the callback or a stderr read has raised inside the
\* monitor loop, the loop has ended, a raising callback was invoked at most
\* once, the call has not raised, a returned result carries the
\* child's exit status, and the call still returns: a child that is still
\* running can write its next line or exit.
C11_SwallowedExceptionHarmless ==
    MonitorBroke
        => /\ call.cb = "raises" => Len(callbacks) <= 1
           /\ outcome.kind # "raised"
           /\ ReturnedResult => outcome.value.returncode = child.rc
           /\ (phase = "poll" /\ proc.alive) => ENABLED (ChildWrite \/ ChildExit)

\* C11, the part that holds, as states: after a swallowed exception the call
\* has not raised, a raising callback was invoked at most once, and a
\* returned result carries the child's exit status.
C11_SwallowedKeepsResult ==
    MonitorBroke
        => /\ call.cb = "raises" => Len(callbacks) <= 1
           /\ outcome.kind # "raised"
           /\ ReturnedResult => outcome.value.returncode = child.rc

\* C11, the part that holds, as steps: once the loop was ended by an
\* exception, the monitor thread stays ended and the callback is not invoked
\* again in that call.
C11_NoCallbackAfterBreak ==
    [][(mon = "broke" /\ phase' # "idle")
          => (mon' = "broke" /\ callbacks' = callbacks)]_vars

\* C11: the same reporting child under a callback that returns is never
\* left blocked, the monitor thread keeps reading its lines.
C11_ReporterDrainedWithoutException ==
    (ProgressCall /\ call.cb = "ok" /\ child.prog = ProgressReporter
        /\ phase = "poll" /\ proc.alive)
        => ENABLED (ChildWrite \/ ChildExit \/ MonitorPoll \/ MonitorRead
                    \/ MonitorCallback)

\* C11: both exceptions happen, and the call returns the child's status
C11_CallbackRaisedReturned ==
    CallbackRaised /\ ReturnedResult /\ outcome.value.returncode = 2

\* C11: a call whose callback returned, and whose monitor thread then read
\* from the stderr that communicate() had closed
C11_ReadRaisedReturned ==
    MonitorBroke /\ call.cb = "ok" /\ ReturnedResult /\ callbacks # <<>>

====
